---- MODULE Spec2Model ----
(***************************************************************************)
(* The Instagram search endpoint of pages/api/instagramSearch.js: request  *)
(* validation, the process-wide result cache, the relevance reordering,    *)
(* pagination and the projection to the public profile shape.              *)
(*                                                                         *)
(* A JavaScript string is a sequence of one-character strings, so that     *)
(* toLowerCase, startsWith, length and parseInt are computed character by  *)
(* character.  An optional value (a query parameter or a record field that *)
(* may be undefined) is a record [has, v].                                 *)
(***************************************************************************)
EXTENDS Integers, Sequences, FiniteSets, TLC

\* ------------------------------------------------------------------ bounds
MaxLen == 3         \* longest dataset drawn for the ranking specification
MaxItems == 2       \* longest result set the provider holds (server specs)

\* ------------------------------------------------------- program constants
MAX_PAGES == 7

\* ---------------------------------------------------------------- strings
Absent == [has |-> FALSE, v |-> <<>>]

Val(s) == [has |-> TRUE, v |-> s]

\* JavaScript truthiness of an optional string: undefined and '' are falsy.
Truthy(o) == o.has /\ o.v # <<>>

\* (o || d) for an optional string o and a string d.
OrElse(o, d) == IF Truthy(o) THEN o.v ELSE d

LowerChar(c) ==
  CASE c = "A" -> "a"
    [] c = "B" -> "b"
    [] c = "I" -> "i"
    [] c = "G" -> "g"
    [] OTHER -> c

\* String.prototype.toLowerCase
ToLowerCase(s) == [i \in 1..Len(s) |-> LowerChar(s[i])]

\* String.prototype.startsWith
StartsWith(s, p) == Len(p) <= Len(s) /\ SubSeq(s, 1, Len(p)) = p

\* String.prototype.includes
Includes(s, p) == \E i \in 0..(Len(s) - Len(p)) : SubSeq(s, i + 1, i + Len(p)) = p

\* ---------------------------------------------------------------- ranking
\* Mutant: a missing username read as the text "undefined".
UserOfAsText(item) ==
  IF item.username.has THEN ToLowerCase(item.username.v)
  ELSE <<"u", "n", "d", "e", "f", "i", "n", "e", "d">>

\* (item.username || '').toLowerCase()
UserOf(item) == ToLowerCase(OrElse(item.username, <<>>))

\* Mutant: within a prefix group the longer username sorts first.
CompareLongerFirst(a, b, q) ==
  LET aUser == UserOf(a)
      bUser == UserOf(b)
      aStarts == StartsWith(aUser, q)
      bStarts == StartsWith(bUser, q)
  IN  IF aStarts /\ ~bStarts THEN -1
      ELSE IF ~aStarts /\ bStarts THEN 1
      ELSE Len(bUser) - Len(aUser)

\* The comparator handed to Array.prototype.sort (the same in both branches).
Compare(a, b, q) ==
  LET aUser == UserOf(a)
      bUser == UserOf(b)
      aStarts == StartsWith(aUser, q)
      bStarts == StartsWith(bUser, q)
  IN  IF aStarts /\ ~bStarts THEN -1
      ELSE IF ~aStarts /\ bStarts THEN 1
      ELSE Len(aUser) - Len(bUser)

Front(s) == SubSeq(s, 1, Len(s) - 1)

Last(s) == s[Len(s)]

\* Mutant: an insertion that moves an element past its equals (unstable).
RECURSIVE InsertSortedUnstable(_, _, _)
InsertSortedUnstable(x, s, q) ==
  IF s = <<>> THEN <<x>>
  ELSE IF Compare(Last(s), x, q) >= 0
       THEN Append(InsertSortedUnstable(x, Front(s), q), Last(s))
       ELSE Append(s, x)

RECURSIVE InsertSorted(_, _, _)
InsertSorted(x, s, q) ==
  IF s = <<>> THEN <<x>>
  ELSE IF Compare(Last(s), x, q) > 0
       THEN Append(InsertSorted(x, Front(s), q), Last(s))
       ELSE Append(s, x)

\* Array.prototype.sort with the comparator: a stable sort (insertion sort).
RECURSIVE Sort(_, _)
Sort(s, q) ==
  IF s = <<>> THEN <<>> ELSE InsertSorted(Last(s), Sort(Front(s), q), q)

\* Mutant: the last exact match is pinned instead of the first.
RankPinLast(fullData, q) ==
  LET IsExact(item) == UserOf(item) = q
      NotExact(item) == UserOf(item) # q
      exactMatches == SelectSeq(fullData, IsExact)
  IN  IF exactMatches # <<>>
      THEN <<exactMatches[Len(exactMatches)]>> \o Sort(SelectSeq(fullData, NotExact), q)
      ELSE Sort(fullData, q)

\* orderedData as the handler builds it from fullData and q.  findIndex is
\* 1-based here, with 0 for -1; filter is SelectSeq.
Rank(fullData, q) ==
  LET IsExact(item) == UserOf(item) = q
      NotExact(item) == UserOf(item) # q
      exactMatchIndex ==
        IF \E i \in 1..Len(fullData) : IsExact(fullData[i])
        THEN CHOOSE i \in 1..Len(fullData) :
               IsExact(fullData[i]) /\ \A j \in 1..(i - 1) : ~IsExact(fullData[j])
        ELSE 0
  IN  IF exactMatchIndex # 0
      THEN LET exactMatches == SelectSeq(fullData, IsExact)
               remainingProfiles == Sort(SelectSeq(fullData, NotExact), q)
           IN  <<exactMatches[1]>> \o remainingProfiles
      ELSE Sort(fullData, q)

\* Mutant: the first exact match taken out of fullData itself (splice).
AfterRankingSpliced(fullData, q) ==
  LET NotFirstExact(i) ==
        UserOf(fullData[i]) # q \/ \E j \in 1..(i - 1) : UserOf(fullData[j]) = q
      keep == {i \in 1..Len(fullData) : NotFirstExact(i)}
      RECURSIVE Pick(_)
      Pick(i) == IF i > Len(fullData) THEN <<>>
                 ELSE (IF i \in keep THEN <<fullData[i]>> ELSE <<>>) \o Pick(i + 1)
  IN  Pick(1)

\* fullData once orderedData is built: both filter calls and the spread make
\* new arrays and sort works on those, so the array is as it was.
AfterRanking(fullData, q) == fullData

\* ------------------------------------------------------------- pagination
Min(a, b) == IF a < b THEN a ELSE b

\* Array.prototype.slice(startIndex, endIndex), 0-based and end-exclusive.
Slice(s, startIndex, endIndex) == SubSeq(s, startIndex + 1, Min(endIndex, Len(s)))

\* Mutant: the end index taken as inclusive.
PaginateInclusive(orderedData, pageInt, limitInt) ==
  Slice(orderedData, (pageInt - 1) * limitInt, (pageInt - 1) * limitInt + limitInt + 1)

\* Mutant: the page number taken as 0-based.
PaginateFromPage(orderedData, pageInt, limitInt) ==
  Slice(orderedData, pageInt * limitInt, pageInt * limitInt + limitInt)

Paginate(orderedData, pageInt, limitInt) ==
  LET startIndex == (pageInt - 1) * limitInt
      endIndex == startIndex + limitInt
  IN  Slice(orderedData, startIndex, endIndex)

\* ------------------------------------------------------------- projection
PlaceholderPath ==
  <<"/", "n", "o", "-", "p", "r", "o", "f", "i", "l", "e", "-", "p", "i", "c",
    "-", "i", "m", "g", ".", "p", "n", "g">>

\* item.id || item.username : the first truthy one, else the username as is.
IdOf(item) == IF Truthy(item.id) THEN item.id ELSE item.username

Project(item) ==
  [id |-> IdOf(item),
   username |-> item.username,
   bio |-> OrElse(item.bio, <<>>),
   profilePicture |->
     IF Truthy(item.profilePicUrlHD) THEN item.profilePicUrlHD.v
     ELSE OrElse(item.profilePicUrl, PlaceholderPath)]

MapProject(items) == [i \in 1..Len(items) |-> Project(items[i])]

NoBody == [profiles |-> <<>>, total |-> 0, currentPage |-> 0, totalPages |-> 0]

\* The handler from the reordering to the response, for a dataset in hand.
Serve(fullData, query, pageInt, limitInt) ==
  LET q == ToLowerCase(query)
      orderedData == Rank(fullData, q)
      paginatedItems == Paginate(orderedData, pageInt, limitInt)
  IN  IF Len(paginatedItems) = 0
      THEN [status |-> 404, body |-> NoBody]
      ELSE [status |-> 200,
            body |-> [profiles |-> MapProject(paginatedItems),
                      total |-> Len(fullData),
                      currentPage |-> pageInt,
                      totalPages |-> MAX_PAGES]]

\* ------------------------------------------------------------- validation
Digits == {"0", "1", "2", "3", "4", "5", "6", "7", "8", "9"}

DigitVal(c) ==
  CASE c = "0" -> 0 [] c = "1" -> 1 [] c = "2" -> 2 [] c = "3" -> 3
    [] c = "4" -> 4 [] c = "5" -> 5 [] c = "6" -> 6 [] c = "7" -> 7
    [] c = "8" -> 8 [] c = "9" -> 9

NaN == [nan |-> TRUE, n |-> 0]

RECURSIVE TrimStart(_)
TrimStart(s) == IF s # <<>> /\ s[1] = " " THEN TrimStart(Tail(s)) ELSE s

RECURSIVE DigitRun(_, _)
DigitRun(s, acc) ==
  IF s = <<>> \/ s[1] \notin Digits THEN acc
  ELSE DigitRun(Tail(s), acc * 10 + DigitVal(s[1]))

\* parseInt(s, 10): leading blanks, an optional sign, then the longest run
\* of decimal digits; NaN when that run is empty.
ParseInt(s) ==
  LET t == TrimStart(s)
      signed == t # <<>> /\ t[1] \in {"-", "+"}
      u == IF signed THEN Tail(t) ELSE t
  IN  IF u = <<>> \/ u[1] \notin Digits THEN NaN
      ELSE [nan |-> FALSE,
            n |-> IF signed /\ t[1] = "-" THEN 0 - DigitRun(u, 0) ELSE DigitRun(u, 0)]

Instagram == <<"i", "n", "s", "t", "a", "g", "r", "a", "m">>

Star == <<"*">>

\* const { query, platform, page = 1, limit = 5 } = req.query, then parseInt.
PageInt(req) == ParseInt(IF req.page.has THEN req.page.v ELSE <<"1">>)

LimitInt(req) == ParseInt(IF req.limit.has THEN req.limit.v ELSE <<"5">>)

\* Mutant: the wildcard sentinel is let through.
RejectsNoStar(req) ==
  \/ ~Truthy(req.query)
  \/ Truthy(req.platform) /\ ToLowerCase(req.platform.v) # Instagram
  \/ PageInt(req).nan \/ PageInt(req).n < 1
  \/ LimitInt(req).nan \/ LimitInt(req).n < 1
  \/ PageInt(req).n > MAX_PAGES

\* Mutant: the page is not held to MAX_PAGES.
RejectsNoEmpty(req) ==
  \/ req.query.v = Star
  \/ Truthy(req.platform) /\ ToLowerCase(req.platform.v) # Instagram
  \/ PageInt(req).nan \/ PageInt(req).n < 1
  \/ LimitInt(req).nan \/ LimitInt(req).n < 1
  \/ PageInt(req).n > MAX_PAGES

RejectsNoMax(req) ==
  \/ ~Truthy(req.query) \/ req.query.v = Star
  \/ Truthy(req.platform) /\ ToLowerCase(req.platform.v) # Instagram
  \/ PageInt(req).nan \/ PageInt(req).n < 1
  \/ LimitInt(req).nan \/ LimitInt(req).n < 1

\* The validation ladder: TRUE when one of its five checks answers 400.
Rejects(req) ==
  \/ ~Truthy(req.query) \/ req.query.v = Star
  \/ Truthy(req.platform) /\ ToLowerCase(req.platform.v) # Instagram
  \/ PageInt(req).nan \/ PageInt(req).n < 1
  \/ LimitInt(req).nan \/ LimitInt(req).n < 1
  \/ PageInt(req).n > MAX_PAGES

\* ------------------------------------------------------------------ cache
\* Mutant: the query is the key as typed.
CacheKeyAsTyped(query) == query

\* const cacheKey = query.toLowerCase()
CacheKey(query) == ToLowerCase(query)

\* fullSearchCache is a plain object literal: a lookup of one of these keys
\* finds a member of Object.prototype, which is truthy and is no array.
ObjectPrototypeKeys ==
  { <<"c", "o", "n", "s", "t", "r", "u", "c", "t", "o", "r">>,
    <<"_", "_", "p", "r", "o", "t", "o", "_", "_">> }

\* Mutant: a key that is already present keeps its value.
CachePutIfAbsent(c, key, fullData) ==
  [k \in DOMAIN c \cup {key} |-> IF k \in DOMAIN c THEN c[k] ELSE fullData]

\* fullSearchCache[cacheKey] = fullData
CachePut(c, key, fullData) == [k \in DOMAIN c \cup {key} |-> IF k = key THEN fullData ELSE c[k]]

\* Mutant: one page too many is asked for.
TotalFetchLimitOneMore(limitInt) == (MAX_PAGES + 1) * limitInt

\* const totalFetchLimit = MAX_PAGES * limitInt
TotalFetchLimit(limitInt) == MAX_PAGES * limitInt

\* datasetClient.listItems({ limit, offset: 0 }) over a result set `stored`.
ListItems(stored, limit) == SubSeq(stored, 1, Min(limit, Len(stored)))

\* Mutant: only a missing items member stops the handler.
HasItemsOrNone(out, items) == out.kind = "items"

\* The negation of (!items || !items.length) for what listItems settled with.
HasItems(out, items) == out.kind = "items" /\ Len(items) # 0

\* ----------------------------------------------------------------- errors
\* A failure message is a sequence of words.
TIMEOUT == <<"TIMEOUT">>

InvalidToken == <<"invalid", "token">>

\* Mutant: the token test runs before the timeout test.
ClassifyTokenFirst(message) ==
  IF message.has /\ Includes(message.v, InvalidToken) THEN 401
  ELSE IF message.has /\ Includes(message.v, TIMEOUT) THEN 504
  ELSE 500

\* Mutant: an error of neither kind answers 503.
ClassifyUnavailable(message) ==
  IF message.has /\ Includes(message.v, TIMEOUT) THEN 504
  ELSE IF message.has /\ Includes(message.v, InvalidToken) THEN 401
  ELSE 503

\* The catch block: the status for a thrown error with an optional message.
Classify(message) ==
  IF message.has /\ Includes(message.v, TIMEOUT) THEN 504
  ELSE IF message.has /\ Includes(message.v, InvalidToken) THEN 401
  ELSE 500

\* ------------------------------------------------------------------ state
VARIABLES
  cache,      \* fullSearchCache: cache key -> the dataset stored under it
  storedBy,   \* history: cache key -> limitInt of the request that stored it
  slot,       \* one handler invocation per slot: position, request, response
  pure        \* the ranking specification's inputs and results

vars == <<cache, storedBy, slot, pure>>

\* ------------------------------------------------------------------ inputs
Rec(id, username, bio, hd, pic) ==
  [id |-> id, username |-> username, bio |-> bio,
   profilePicUrlHD |-> hd, profilePicUrl |-> pic]

RecA == Rec(Val(<<"1">>), Val(<<"a">>), Absent, Absent, Absent)

RecA2 == Rec(Val(<<"2">>), Val(<<"A">>), Val(<<"x">>), Absent, Val(<<"s">>))

RecAb == Rec(Val(<<"3">>), Val(<<"a", "b">>), Val(<<"y">>), Val(<<"h">>), Val(<<"s">>))

RecB == Rec(Val(<<"4">>), Val(<<"b">>), Absent, Absent, Absent)

RecNoName == Rec(Val(<<"5">>), Absent, Absent, Absent, Absent)

RecAbb == Rec(Absent, Val(<<"A", "b", "b">>), Val(<<>>), Val(<<>>), Absent)

RecordPool == {RecA, RecA2, RecAb, RecB, RecNoName, RecAbb}

ProviderRecords == {RecA, RecA2, RecAb}

SeqsUpTo(S, n) == UNION {[1..m -> S] : m \in 0..n}

\* A result set longer than MAX_PAGES items, so that listItems' limit cuts.
LongResult == <<RecAb, RecA, RecA2, RecAb, RecA, RecA2, RecAb, RecA>>

\* The result sets of the concurrent specification.
Results == {<<>>, <<RecA>>, <<RecAb>>, <<RecAb, RecA>>}

WideResults == SeqsUpTo(ProviderRecords, MaxItems) \cup {LongResult}

Request(method, query, platform, page, limit) ==
  [method |-> method, query |-> query, platform |-> platform,
   page |-> page, limit |-> limit]

NoRequest == Request("", Absent, Absent, Absent, Absent)

Get(query, page, limit) == Request("GET", Val(query), Absent, page, Val(limit))

\* The requests of the concurrent specification: two spellings of one
\* search term with differing page and limit, and a second search term.
Requests ==
  { Get(<<"a">>, Absent, <<"1">>),
    Get(<<"a">>, Absent, <<"2">>),
    Get(<<"A">>, Val(<<"2">>), <<"1">>),
    Get(<<"A">>, Val(<<"2">>), <<"2">>),
    Get(<<"b">>, Absent, <<"1">>) }

Vary(M, Q, PL, PG, LM) ==
  { Request(m, q, pl, pg, lm) : m \in M, q \in Q, pl \in PL, pg \in PG, lm \in LM }

RegularQueries == {Val(<<"a">>), Val(<<"A">>)}

RegularPlatforms == {Absent, Val(<<"I", "n", "s", "t", "a", "G", "r", "a", "m">>)}

RegularPages == {Absent, Val(<<"2", "x">>)}

RegularLimits == {Absent, Val(<<"1">>)}

AllQueries == RegularQueries \cup {Absent, Val(<<>>), Val(Star)}

AllPlatforms == RegularPlatforms \cup {Val(<<>>), Val(<<"i", "g">>)}

AllPages ==
  RegularPages \cup {Val(<<"8">>), Val(<<" ", "9">>), Val(<<"x">>), Val(<<"0">>), Val(<<"-", "1">>)}

AllLimits == RegularLimits \cup {Val(<<"0">>), Val(<<"x", "2">>), Val(<<>>)}

\* Every parameter over its whole pool with the others regular, page and
\* limit over their whole pools together, and the Object.prototype keys.
WideRequests ==
  Vary({"GET", "POST"}, RegularQueries, RegularPlatforms, RegularPages, RegularLimits)
    \cup Vary({"GET"}, AllQueries, RegularPlatforms, RegularPages, RegularLimits)
    \cup Vary({"GET"}, RegularQueries, AllPlatforms, RegularPages, RegularLimits)
    \cup Vary({"GET"}, RegularQueries, {Absent}, AllPages, AllLimits)
    \cup Vary({"GET"}, {Val(q) : q \in ObjectPrototypeKeys}, {Absent}, {Absent}, {Absent})

Messages ==
  { Absent,
    Val(<<"TIMEOUT">>),
    Val(<<"run", "TIMEOUT", "exceeded">>),
    Val(<<"invalid", "token">>),
    Val(<<"TIMEOUT", "invalid", "token">>),
    Val(<<"invalid", "TIMEOUT", "token">>),
    Val(<<"timeout">>),
    Val(<<"token", "invalid">>) }

Outcome(kind, message, stored) == [kind |-> kind, message |-> message, stored |-> stored]

NoOutcome == Outcome("none", Absent, <<>>)

Throws(messages) == { Outcome("throw", m, <<>>) : m \in messages }

\* client.actor(...).call(input): a run with or without a defaultDatasetId,
\* no run at all, or a thrown error.
CallOutcomes(messages) ==
  { Outcome(k, Absent, <<>>) : k \in {"run", "runNoDataset", "noRun"} } \cup Throws(messages)

\* datasetClient.listItems(...): the items of a result set, no items member,
\* or a thrown error.
ListOutcomes(results, messages) ==
  { Outcome("items", Absent, st) : st \in results }
    \cup {Outcome("noItems", Absent, <<>>)} \cup Throws(messages)

\* ---------------------------------------------------------------- handler
Slots == {1, 2}

Idle ==
  [pc |-> "idle", req |-> NoRequest, invoked |-> FALSE, outcome |-> NoOutcome,
   status |-> 0, body |-> NoBody]

\* return res.status(status).json(...)
Respond(s, status, body) == [s EXCEPT !.pc = "done", !.status = status, !.body = body]

TypeErrorMessage == Val(<<"fullData.findIndex", "is", "not", "a", "function">>)

\* A request arrives: the handler runs to its first await or to its response.
Start(r, req) ==
  /\ slot[r].pc \in {"idle", "done"}
  /\ LET s == [Idle EXCEPT !.req = req]
     IN  IF req.method # "GET" THEN slot' = [slot EXCEPT ![r] = Respond(s, 405, NoBody)]
         ELSE IF Rejects(req) THEN slot' = [slot EXCEPT ![r] = Respond(s, 400, NoBody)]
         ELSE LET cacheKey == CacheKey(req.query.v)
              IN  IF cacheKey \in ObjectPrototypeKeys
                  THEN slot' = [slot EXCEPT ![r] = Respond(s, Classify(TypeErrorMessage), NoBody)]
                  ELSE IF cacheKey \in DOMAIN cache
                  THEN LET out == Serve(cache[cacheKey], req.query.v,
                                        PageInt(req).n, LimitInt(req).n)
                       IN  slot' = [slot EXCEPT ![r] = Respond(s, out.status, out.body)]
                  ELSE slot' = [slot EXCEPT ![r] = [s EXCEPT !.pc = "call", !.invoked = TRUE]]
  /\ cache' = IF req.method = "GET" /\ ~Rejects(req) /\ CacheKey(req.query.v) \in DOMAIN cache
              THEN [cache EXCEPT ![CacheKey(req.query.v)] =
                      AfterRanking(@, ToLowerCase(req.query.v))]
              ELSE cache
  /\ UNCHANGED <<storedBy, pure>>

\* The actor call settles.
CallReturns(r, out) ==
  /\ slot[r].pc = "call"
  /\ LET s == [slot[r] EXCEPT !.outcome = out]
     IN  slot' = [slot EXCEPT ![r] =
           IF out.kind = "throw" THEN Respond(s, Classify(out.message), NoBody)
           ELSE IF out.kind # "run" THEN Respond(s, 502, NoBody)
           ELSE [slot[r] EXCEPT !.pc = "list"]]
  /\ UNCHANGED <<cache, storedBy, pure>>

\* listItems settles: the dataset is cached and the response built from it.
ListReturns(r, out) ==
  /\ slot[r].pc = "list"
  /\ LET s == [slot[r] EXCEPT !.outcome = out]
         req == slot[r].req
         limitInt == LimitInt(req).n
         items == ListItems(out.stored, TotalFetchLimit(limitInt))
     IN  IF out.kind = "throw"
         THEN /\ slot' = [slot EXCEPT ![r] = Respond(s, Classify(out.message), NoBody)]
              /\ UNCHANGED <<cache, storedBy>>
         ELSE IF ~HasItems(out, items)
         THEN /\ slot' = [slot EXCEPT ![r] = Respond(s, 404, NoBody)]
              /\ UNCHANGED <<cache, storedBy>>
         ELSE LET cacheKey == CacheKey(req.query.v)
                  res == Serve(items, req.query.v, PageInt(req).n, limitInt)
              IN  /\ cache' = CachePut(cache, cacheKey,
                                        AfterRanking(items, ToLowerCase(req.query.v)))
                  /\ storedBy' = CachePut(storedBy, cacheKey, limitInt)
                  /\ slot' = [slot EXCEPT ![r] = Respond(s, res.status, res.body)]
  /\ UNCHANGED pure

PureOff == [phase |-> "off", data |-> <<>>, query |-> <<>>, limit |-> 0,
            ranked |-> <<>>, twice |-> <<>>, k |-> 0, pages |-> <<>>]

EmptyCache == [k \in {} |-> <<>>]

Init ==
  /\ cache = EmptyCache
  /\ storedBy = EmptyCache
  /\ slot = [r \in Slots |-> Idle]
  /\ pure = PureOff

\* Requests handled concurrently: every interleaving at the awaits.
Next ==
  \E r \in Slots :
    \/ \E req \in Requests : Start(r, req)
    \/ \E out \in CallOutcomes({Val(TIMEOUT)}) : CallReturns(r, out)
    \/ \E out \in ListOutcomes(Results, {Val(InvalidToken)}) : ListReturns(r, out)

Spec == Init /\ [][Next]_vars

\* One request at a time, over the wide parameter and result pools.
NextSeq ==
  \/ \E req \in WideRequests : Start(1, req)
  \/ \E out \in CallOutcomes(Messages) : CallReturns(1, out)
  \/ \E out \in ListOutcomes(WideResults, Messages) : ListReturns(1, out)

SpecSeq == Init /\ [][NextSeq]_vars

\* SpecSeq where each awaited promise settles: the handler suspended at
\* line 62 or line 69 is resumed once the actor call or listItems returns
\* or throws.
SpecLive ==
  /\ Init /\ [][NextSeq]_vars
  /\ WF_vars(\E out \in CallOutcomes(Messages) : CallReturns(1, out))
  /\ WF_vars(\E out \in ListOutcomes(WideResults, Messages) : ListReturns(1, out))

\* ------------------------------------------- the ranking specification
PureQueries == {<<"a">>, <<"A", "b">>, <<"b">>}

PureLimits == {1, 2}

InitPure ==
  /\ cache = EmptyCache
  /\ storedBy = EmptyCache
  /\ slot = [r \in Slots |-> Idle]
  /\ \E data \in SeqsUpTo(RecordPool, MaxLen), query \in PureQueries, limit \in PureLimits :
       pure = [PureOff EXCEPT !.phase = "init", !.data = data,
                              !.query = query, !.limit = limit]

\* The reordering applied to a dataset, and applied again to its result.
RankStep ==
  /\ pure.phase = "init"
  /\ LET q == ToLowerCase(pure.query)
         orderedData == Rank(pure.data, q)
     IN  pure' = [pure EXCEPT !.phase = "ranked", !.ranked = orderedData,
                              !.twice = Rank(orderedData, q)]
  /\ UNCHANGED <<cache, storedBy, slot>>

\* The next page of the dataset is served and appended to the pages so far.
PageStep ==
  /\ pure.phase = "ranked"
  /\ pure.k < MAX_PAGES
  /\ LET res == Serve(pure.data, pure.query, pure.k + 1, pure.limit)
     IN  pure' = [pure EXCEPT !.k = pure.k + 1,
                              !.pages = pure.pages \o res.body.profiles]
  /\ UNCHANGED <<cache, storedBy, slot>>

NextPure == RankStep \/ PageStep

SpecPure == InitPure /\ [][NextPure]_vars

\* ------------------------------------------------------------------ claims
Count(s, x) == Cardinality({i \in 1..Len(s) : s[i] = x})

Take(s, n) == SubSeq(s, 1, Min(n, Len(s)))

ExactIn(s, query) ==
  {i \in 1..Len(s) : ToLowerCase(OrElse(s[i].username, <<>>)) = ToLowerCase(query)}

FirstOf(S) == CHOOSE i \in S : \A j \in S : i <= j

\* C3: the ranked sequence is a permutation of the dataset (same records,
\* same multiplicities); with several exact matches one is pinned at
\* position 0 and the others appear in the remainder.
C3_RankIsPermutation ==
  pure.phase = "ranked" =>
    /\ Len(pure.ranked) = Len(pure.data)
    /\ \A x \in RecordPool : Count(pure.ranked, x) = Count(pure.data, x)
    /\ Cardinality(ExactIn(pure.data, pure.query)) > 1 =>
         Cardinality(ExactIn(pure.ranked, pure.query)) =
           Cardinality(ExactIn(pure.data, pure.query))

\* C5: the profiles of pages 1..k, concatenated, are the first k * limit
\* items of the ranked ordering (all of it when it is shorter), in order.
C5_PagesArePrefix ==
  pure.phase = "ranked" =>
    pure.pages = MapProject(Take(pure.ranked, pure.k * pure.limit))

\* A last page that is cut short has been served after a full one.
C5_Witness ==
  /\ pure.phase = "ranked"
  /\ pure.k = 2
  /\ pure.limit = 2
  /\ Len(pure.pages) = 3
  /\ pure.ranked # pure.data

\* C9: ranking the ranked sequence again for the same query changes nothing.
C9_RankIdempotent == pure.phase = "ranked" => pure.twice = pure.ranked

\* A dataset that ranking reorders, with ties the sort had to keep in order.
C9_Witness ==
  /\ pure.phase = "ranked"
  /\ pure.ranked # pure.data
  /\ pure.twice = pure.ranked
  /\ \E i \in 1..(Len(pure.ranked) - 1) :
       /\ pure.ranked[i] # pure.ranked[i + 1]
       /\ Compare(pure.ranked[i], pure.ranked[i + 1], ToLowerCase(pure.query)) = 0

\* A parameter as an integer: its default when absent, else parseInt of it.
ParamInt(p, default) == IF p.has THEN ParseInt(p.v) ELSE [nan |-> FALSE, n |-> default]

NotPositiveInt(p, default) == ParamInt(p, default).nan \/ ParamInt(p, default).n < 1

PageAbove(req, n) == ~ParamInt(req.page, 1).nan /\ ParamInt(req.page, 1).n > n

\* A request that is GET and passes every validation of the endpoint.
Accepted(req) ==
  /\ req.method = "GET"
  /\ req.query.has /\ req.query.v # <<>> /\ req.query.v # Star
  /\ Truthy(req.platform) => ToLowerCase(req.platform.v) = Instagram
  /\ ~NotPositiveInt(req.page, 1) /\ ~NotPositiveInt(req.limit, 5)
  /\ ~PageAbove(req, 7)

\* Slot r takes a new request in this step.
Arrives(r) == slot[r].pc \in {"idle", "done"} /\ slot'[r] # slot[r]

\* C1: a request that arrives when a dataset is stored under the lowercase
\* of its query is answered in that step, without a call to the fetcher.
C1_NoRefetch ==
  [][\A r \in Slots :
       (/\ Arrives(r)
        /\ Accepted(slot'[r].req)
        /\ ToLowerCase(slot'[r].req.query.v) \in DOMAIN cache)
       => (slot'[r].pc = "done" /\ ~slot'[r].invoked /\ slot'[r].outcome = NoOutcome)]_vars

\* A hit under another spelling of the query, another page and another limit
\* than those of the request that stored the dataset.
C1_Witness ==
  \E r \in Slots :
    LET req == slot[r].req
    IN  /\ slot[r].pc = "done" /\ slot[r].status = 200 /\ ~slot[r].invoked
        /\ req.query.v = <<"A">> /\ <<"a">> \in DOMAIN cache
        /\ ParamInt(req.page, 1).n = 2
        /\ ParamInt(req.limit, 5).n # storedBy[<<"a">>]

\* The invalid parameters as the claim lists them, for a GET request.
InvalidAsClaimed(req) ==
  \/ ~req.query.has \/ req.query.v = <<>> \/ req.query.v = Star
  \/ req.platform.has /\ ToLowerCase(req.platform.v) # Instagram
  \/ NotPositiveInt(req.page, 1) \/ NotPositiveInt(req.limit, 5)
  \/ PageAbove(req, 7)

\* The same with a platform that is present and not empty.
InvalidParameters(req) ==
  \/ ~req.query.has \/ req.query.v = <<>> \/ req.query.v = Star
  \/ req.platform.has /\ req.platform.v # <<>> /\ ToLowerCase(req.platform.v) # Instagram
  \/ NotPositiveInt(req.page, 1) \/ NotPositiveInt(req.limit, 5)
  \/ PageAbove(req, 7)

\* C2 as stated: a GET request with invalid parameters (a platform that is
\* present and is not "instagram" among them) is answered 400 and never
\* reaches the fetcher.
C2_AsStated ==
  \A r \in Slots :
    (slot[r].pc # "idle" /\ slot[r].req.method = "GET" /\ InvalidAsClaimed(slot[r].req))
    => (slot[r].pc = "done" /\ slot[r].status = 400 /\ ~slot[r].invoked)

\* C2, amended: a GET request whose parameters are invalid, the platform
\* counting only when it is not empty, is answered 400 in the step it
\* arrives, without a call to the fetcher and with the cache left as it was.
C2_InvalidIs400 ==
  [][\A r \in Slots :
       (Arrives(r) /\ slot'[r].req.method = "GET" /\ InvalidParameters(slot'[r].req))
       => (/\ slot'[r].pc = "done" /\ slot'[r].status = 400
           /\ ~slot'[r].invoked /\ cache' = cache)]_vars

\* A wrong platform and a wildcard query are each refused with datasets cached.
C2_Witness ==
  /\ DOMAIN cache # {}
  /\ slot[1].pc = "done" /\ slot[1].status = 400 /\ ~slot[1].invoked
  /\ slot[1].req.method = "GET"
  /\ \/ slot[1].req.platform = Val(<<"i", "g">>)
     \/ slot[1].req.query = Val(Star)

\* C4: a 200 response for page 1 of a dataset holding an exact match starts
\* with the first exact match in dataset order.
C4_ExactMatchFirst ==
  LET req == slot[1].req
      key == ToLowerCase(req.query.v)
  IN  (/\ slot[1].pc = "done" /\ slot[1].status = 200
       /\ ParamInt(req.page, 1).n = 1
       /\ key \in DOMAIN cache
       /\ ExactIn(cache[key], req.query.v) # {})
      => slot[1].body.profiles[1] =
           Project(cache[key][FirstOf(ExactIn(cache[key], req.query.v))])

\* Differing exact matches, none of them first in the dataset; the first of
\* them leads page 1.
C4_Witness ==
  LET req == slot[1].req
      key == ToLowerCase(req.query.v)
  IN  /\ slot[1].pc = "done" /\ slot[1].status = 200
      /\ ParamInt(req.page, 1).n = 1
      /\ key \in DOMAIN cache
      /\ ExactIn(cache[key], req.query.v) # {}
      /\ FirstOf(ExactIn(cache[key], req.query.v)) > 1
      /\ \E j \in ExactIn(cache[key], req.query.v) :
           cache[key][j] # cache[key][FirstOf(ExactIn(cache[key], req.query.v))]
      /\ slot[1].body.profiles[1] =
           Project(cache[key][FirstOf(ExactIn(cache[key], req.query.v))])

\* C6: once the cache holds a dataset for a key it holds that same sequence
\* for that key ever after, and no key leaves the cache.
C6_CacheImmutable ==
  [][\A k \in DOMAIN cache : k \in DOMAIN cache' /\ cache'[k] = cache[k]]_vars

\* C7 as stated: every cached dataset has exactly 7 * L items, L the limit
\* of the request that stored it.
C7_AsStated == \A k \in DOMAIN cache : Len(cache[k]) = 7 * storedBy[k]

\* C7, amended: every cached dataset has at least one and at most 7 * L
\* items, L the limit of the request that stored it, and a request answered
\* from the cache leaves the dataset as it was.
C7_DatasetLength ==
  [][/\ \A k \in DOMAIN cache' :
          Len(cache'[k]) >= 1 /\ Len(cache'[k]) <= 7 * storedBy'[k]
     /\ \A r \in Slots :
          (Arrives(r) /\ Accepted(slot'[r].req)
             /\ ToLowerCase(slot'[r].req.query.v) \in DOMAIN cache)
          => (cache' = cache /\ storedBy' = storedBy)]_vars

\* A dataset cut to 7 * 1 items, later served to a request with limit 5.
C7_Witness ==
  /\ <<"a">> \in DOMAIN cache
  /\ storedBy[<<"a">>] = 1
  /\ Len(cache[<<"a">>]) = 7
  /\ slot[1].pc = "done" /\ slot[1].status = 200 /\ ~slot[1].invoked
  /\ ParamInt(slot[1].req.limit, 5).n = 5

\* C8: a GET request with page above 7 is answered 400 without a call to
\* the fetcher, whatever its limit.
C8_PageAboveMax ==
  \A r \in Slots :
    (slot[r].pc # "idle" /\ slot[r].req.method = "GET" /\ PageAbove(slot[r].req, 7))
    => (slot[r].pc = "done" /\ slot[r].status = 400 /\ ~slot[r].invoked)

\* Page 8 refused with a valid limit, so by the page check itself.
C8_Witness ==
  /\ slot[1].pc = "done" /\ slot[1].status = 400
  /\ slot[1].req.method = "GET" /\ Truthy(slot[1].req.query)
  /\ slot[1].req.page = Val(<<"8">>)
  /\ slot[1].req.limit = Val(<<"1">>)

\* C10: on a miss, a thrown failure gives 504 when its message contains
\* "TIMEOUT", else 401 when it contains "invalid token", else 500; no result
\* container gives 502; no items gives 404.
C10_FailureStatus ==
  \A r \in Slots :
    LET out == slot[r].outcome
        has(p) == out.message.has /\ Includes(out.message.v, p)
    IN  (slot[r].pc = "done" /\ slot[r].invoked) =>
          /\ (out.kind = "throw" /\ has(TIMEOUT)) => slot[r].status = 504
          /\ (out.kind = "throw" /\ has(InvalidToken) /\ ~has(TIMEOUT)) => slot[r].status = 401
          /\ (out.kind = "throw" /\ ~has(InvalidToken) /\ ~has(TIMEOUT)) => slot[r].status = 500
          /\ out.kind \in {"noRun", "runNoDataset"} => slot[r].status = 502
          /\ (out.kind = "noItems" \/ (out.kind = "items" /\ out.stored = <<>>))
               => slot[r].status = 404

\* A message with both patterns, thrown by listItems, is a timeout.
C10_Witness ==
  /\ slot[1].pc = "done" /\ slot[1].invoked /\ slot[1].status = 504
  /\ slot[1].outcome.kind = "throw"
  /\ slot[1].outcome.message = Val(<<"TIMEOUT", "invalid", "token">>)

\* Slot r sends its response in this step.
Answers(r) == slot'[r] # slot[r] /\ slot'[r].pc = "done"

KeyOf(r) == ToLowerCase(slot[r].req.query.v)

\* C11: a 200 response reports the length of the dataset cached for its
\* query as total, 7 as totalPages and the requested page as currentPage;
\* two 200 responses for one query with different limits report the same
\* total.
C11_TotalsAgree ==
  [][\A r \in Slots :
       (Answers(r) /\ slot'[r].status = 200) =>
         LET key == ToLowerCase(slot'[r].req.query.v)
         IN  /\ key \in DOMAIN cache'
             /\ slot'[r].body.total = Len(cache'[key])
             /\ slot'[r].body.totalPages = 7
             /\ slot'[r].body.currentPage = ParamInt(slot'[r].req.page, 1).n
             /\ \A o \in Slots :
                  (slot'[o].pc = "done" /\ slot'[o].status = 200
                     /\ ToLowerCase(slot'[o].req.query.v) = key
                     /\ ParamInt(slot'[o].req.limit, 5) # ParamInt(slot'[r].req.limit, 5))
                  => slot'[o].body.total = slot'[r].body.total]_vars

\* The username a record is ranked by: the empty string when it has none.
NameOf(item) == IF item.username.has THEN ToLowerCase(item.username.v) ELSE <<>>

\* C12: a record with no username is never the pinned exact match, follows
\* every prefix match and precedes every other record that has a username
\* and is no prefix match; its profile has no username, an empty bio when it
\* has no bio, and the placeholder picture when it has no image URL.
C12_NoUsername ==
  pure.phase = "ranked" =>
    LET q == ToLowerCase(pure.query)
        R == pure.ranked
    IN  \A i \in 1..Len(R) :
          ~R[i].username.has =>
            /\ i = 1 => ExactIn(pure.data, pure.query) = {}
            /\ \A j \in 1..Len(R) :
                 /\ StartsWith(NameOf(R[j]), q) => j < i
                 /\ (~StartsWith(NameOf(R[j]), q) /\ Len(NameOf(R[j])) > 0) => i < j
            /\ i <= Len(pure.pages) =>
                 /\ pure.pages[i].username = Absent
                 /\ ~R[i].bio.has => pure.pages[i].bio = <<>>
                 /\ (~R[i].profilePicUrlHD.has /\ ~R[i].profilePicUrl.has)
                      => pure.pages[i].profilePicture = PlaceholderPath

\* A record with no username served between a prefix match and a record
\* that is no prefix match.
C12_Witness ==
  /\ pure.phase = "ranked"
  /\ Len(pure.pages) = 3
  /\ ~pure.ranked[2].username.has
  /\ pure.pages[2].profilePicture = PlaceholderPath
  /\ StartsWith(NameOf(pure.ranked[1]), ToLowerCase(pure.query))
  /\ ExactIn(pure.data, pure.query) = {}
  /\ Len(NameOf(pure.ranked[3])) > 0

\* The ranked sequence without the pinned exact match, if there is one.
Remainder ==
  IF ExactIn(pure.data, pure.query) # {} THEN Tail(pure.ranked) ELSE pure.ranked

NameLengths == {Len(NameOf(x)) : x \in RecordPool}

\* C14: past the pinned exact match, prefix matches precede the other
\* records, each of the two groups is in non-decreasing username length, and
\* records of one group and one length are in their dataset order.
C14_RemainderOrder ==
  pure.phase = "ranked" =>
    LET q == ToLowerCase(pure.query)
        T == Remainder
        IsPrefix(x) == StartsWith(NameOf(x), q)
        NotExact(x) == NameOf(x) # q
    IN  /\ \A i \in 1..Len(T) : \A j \in (i + 1)..Len(T) :
             /\ IsPrefix(T[j]) => IsPrefix(T[i])
             /\ (IsPrefix(T[i]) <=> IsPrefix(T[j]))
                  => Len(NameOf(T[i])) <= Len(NameOf(T[j]))
        /\ \A b \in BOOLEAN, n \in NameLengths :
             LET InGroup(x) == (IsPrefix(x) <=> b) /\ Len(NameOf(x)) = n
             IN  SelectSeq(T, InGroup) = SelectSeq(SelectSeq(pure.data, NotExact), InGroup)

\* A pinned exact match followed by two different records of one group and
\* one length, in a dataset that ranking reorders.
C14_Witness ==
  /\ pure.phase = "ranked"
  /\ ExactIn(pure.data, pure.query) # {}
  /\ Len(pure.ranked) = 3
  /\ pure.ranked # pure.data
  /\ pure.ranked[2] # pure.ranked[3]
  /\ NameOf(pure.ranked[2]) # ToLowerCase(pure.query)
  /\ Len(NameOf(pure.ranked[2])) = Len(NameOf(pure.ranked[3]))

\* C13: two requests for one uncached key can both miss and both fetch;
\* each successful fetch writes the cache, and the cache then holds the
\* dataset of the write made last.
C13_LastWriteWins ==
  [][\A r \in Slots :
       (/\ slot[r].pc = "list" /\ slot'[r].pc = "done"
        /\ slot'[r].outcome.kind = "items" /\ slot'[r].outcome.stored # <<>>)
       => LET key == ToLowerCase(slot[r].req.query.v)
              written == Take(slot'[r].outcome.stored, 7 * ParamInt(slot[r].req.limit, 5).n)
          IN  key \in DOMAIN cache' /\ cache'[key] = written]_vars

\* Both requests for one key have fetched with success; the cache holds the
\* dataset of one and the other's is gone.
C13_Witness ==
  \E r \in Slots, o \in Slots :
    /\ r # o
    /\ slot[r].pc = "done" /\ slot[r].invoked /\ slot[r].outcome.kind = "items"
    /\ slot[o].pc = "done" /\ slot[o].invoked /\ slot[o].outcome.kind = "items"
    /\ slot[r].outcome.stored # <<>> /\ slot[o].outcome.stored # <<>>
    /\ KeyOf(r) = KeyOf(o)
    /\ cache[KeyOf(r)] = slot[r].outcome.stored
    /\ cache[KeyOf(r)] # slot[o].outcome.stored

\* C15: a valid request answered from a dataset gets 404 exactly when the
\* slice ranked[(page-1)*limit : (page-1)*limit+limit] is empty, and else 200
\* with the profiles of that slice, in order, between 1 and limit of them.
C15_SliceDecides ==
  \A r \in Slots :
    LET req == slot[r].req
        key == KeyOf(r)
    IN  (/\ slot[r].pc = "done" /\ Accepted(req)
         /\ key \in DOMAIN cache
         /\ slot[r].outcome.kind \in {"none", "items"})
        => LET ranked == Rank(cache[key], key)
               page == ParamInt(req.page, 1).n
               limit == ParamInt(req.limit, 5).n
               slice == SubSeq(ranked, (page - 1) * limit + 1, Min(page * limit, Len(ranked)))
           IN  /\ slot[r].status \in {200, 404}
               /\ slot[r].status = 404 <=> slice = <<>>
               /\ slot[r].status = 200 =>
                    /\ Len(slot[r].body.profiles) \in 1..limit
                    /\ slot[r].body.profiles = [i \in 1..Len(slice) |-> Project(slice[i])]

\* Page 2 of a cached dataset, one profile long, served on a hit.
C15_Witness ==
  /\ slot[1].pc = "done" /\ slot[1].status = 200 /\ ~slot[1].invoked
  /\ ParamInt(slot[1].req.page, 1).n = 2
  /\ ParamInt(slot[1].req.limit, 5).n = 1
  /\ Len(slot[1].body.profiles) = 1
  /\ Len(cache[KeyOf(1)]) > 2

\* C16: a request answered from a dataset that is already cached leaves the
\* cache, and the order of that dataset's records, as they were.
C16_ServeKeepsCache ==
  [][\A r \in Slots :
       (/\ Arrives(r) /\ Accepted(slot'[r].req)
        /\ ToLowerCase(slot'[r].req.query.v) \in DOMAIN cache)
       => (/\ DOMAIN cache' = DOMAIN cache
           /\ \A k \in DOMAIN cache : cache'[k] = cache[k])]_vars

\* A hit on a dataset that ranking reorders, with an exact match that is not
\* its first record; the cached order is still the fetched one.
C16_Witness ==
  /\ slot[1].pc = "done" /\ slot[1].status = 200 /\ ~slot[1].invoked
  /\ KeyOf(1) \in DOMAIN cache
  /\ ExactIn(cache[KeyOf(1)], slot[1].req.query.v) # {}
  /\ 1 \notin ExactIn(cache[KeyOf(1)], slot[1].req.query.v)
  /\ slot[1].body.profiles[1] # Project(cache[KeyOf(1)][1])

\* An external fetch that failed: it threw, gave no result container, or
\* gave no items.
Failed(out) ==
  \/ out.kind \in {"throw", "noRun", "runNoDataset", "noItems"}
  \/ out.kind = "items" /\ out.stored = <<>>

\* C17: the step in which a fetch fails leaves the cache as it was, and the
\* next request for the same query calls the fetcher again.
C17_FailureStoresNothing ==
  [][\A r \in Slots :
       /\ (slot[r].pc \in {"call", "list"} /\ slot'[r].pc = "done"
             /\ Failed(slot'[r].outcome))
          => cache' = cache
       /\ (/\ Arrives(r) /\ slot[r].invoked /\ Failed(slot[r].outcome)
           /\ Accepted(slot'[r].req)
           /\ ToLowerCase(slot'[r].req.query.v) = KeyOf(r))
          => (slot'[r].invoked /\ slot'[r].pc = "call")]_vars

\* A fetch that gave no items has been answered 404 and its key is not cached.
C17_Witness ==
  /\ slot[1].pc = "done" /\ slot[1].invoked /\ slot[1].status = 404
  /\ slot[1].outcome.kind = "items" /\ slot[1].outcome.stored = <<>>
  /\ KeyOf(1) \notin DOMAIN cache

\* The capital letters of the model's alphabet.
UpperChars == {"A", "B", "I", "G"}

\* C18: every cached dataset has at least one item and every cache key is
\* a non-empty string without capitals other than "*"; a request whose fetch
\* gave items has its dataset cached whatever its own status, 404 included.
C18_CacheWellFormed ==
  /\ \A k \in DOMAIN cache :
       /\ k # <<>> /\ k # Star
       /\ \A i \in DOMAIN k : k[i] \notin UpperChars
       /\ cache[k] # <<>>
  /\ \A r \in Slots :
       (/\ slot[r].pc = "done" /\ slot[r].invoked
        /\ slot[r].outcome.kind = "items" /\ slot[r].outcome.stored # <<>>)
       => KeyOf(r) \in DOMAIN cache

\* A request typed with a capital asked for a page past the end of what its
\* fetch gave: it is answered 404 and the dataset is in the cache.
C18_Witness ==
  /\ slot[1].pc = "done" /\ slot[1].invoked /\ slot[1].status = 404
  /\ slot[1].outcome.kind = "items" /\ slot[1].outcome.stored # <<>>
  /\ slot[1].req.query.v = <<"A">>
  /\ KeyOf(1) \in DOMAIN cache /\ cache[KeyOf(1)] # <<>>

\* The statuses the handler answers with.
Statuses == {200, 400, 401, 404, 405, 500, 502, 504}

InFlight(r) == slot[r].pc \in {"call", "list"}

\* C19: a request waiting on a fetch is eventually answered; it has no
\* response while it waits and one response, with a status of Statuses, once
\* done, and stays the same request in between; a request whose method is
\* not GET is answered 405 on arrival, never calls the fetcher and leaves
\* the cache as it was.
C19_AnsweredOnce ==
  /\ \A r \in Slots : InFlight(r) ~> (slot[r].pc = "done")
  /\ [](\A r \in Slots :
          /\ slot[r].pc = "done" => slot[r].status \in Statuses
          /\ slot[r].pc # "done" => slot[r].status = 0)
  /\ [][\A r \in Slots :
          /\ InFlight(r) =>
               /\ slot'[r].req = slot[r].req
               /\ slot'[r].pc \in {"list", "done"}
          /\ (Arrives(r) /\ slot'[r].req.method # "GET") =>
               /\ slot'[r].pc = "done" /\ slot'[r].status = 405
               /\ ~slot'[r].invoked
               /\ cache' = cache]_vars

\* A POST has been answered 405 while a dataset sits in the cache.
C19_Witness ==
  /\ slot[1].pc = "done" /\ slot[1].req.method = "POST"
  /\ slot[1].status = 405 /\ ~slot[1].invoked
  /\ DOMAIN cache # {}

====
